---- MODULE Spec2Model ----
(***************************************************************************)
(* Invite-code issuance and redemption of Linke (Go, gin + gorm).          *)
(*                                                                         *)
(* The backing store is the only state shared between requests.  Every     *)
(* request runs on its own goroutine; a request is modelled as a process   *)
(* whose steps are its store accesses, in the order the code issues them.  *)
(* A statement issued on s.db commits on its own; statements issued on a   *)
(* transaction handle (tx) become visible at tx.Commit and hold the lock   *)
(* of the row they wrote until the transaction ends.                       *)
(***************************************************************************)
EXTENDS Integers, Sequences, FiniteSets, TLC

\* ---------------------------------------------------------------- bounds
MaxProcs == 2        \* concurrent requests (goroutines)
MaxCodes == 1        \* invite_codes rows ever created
MaxUsesInput == 2    \* largest max_uses a create request asks for
MaxCalls == 3        \* requests other than create that are started
MaxGenRows == 2
MaxGenCodes == 2
MaxTasks == 2         \* tasks that CreateTask enqueues
MaxDepth == 2         \* nested calls of GenerateInviteCode that are followed
MaxEmails == 2       \* e-mail addresses a registration request may carry

\* ------------------------------------------------------ program constants
MinUses == 1
MaxDescription == 255
DefaultMaxRetry == 3  \* CreateTask: MaxRetry: 3
MaxUsesLimit == 100
InviteCodeStatusActive == "active"
InviteCodeStatusUsed == "used"
InviteCodeStatusDisabled == "disabled"
UserRoleAdmin == "admin"
UserRoleUser == "user"
UserStatusActive == "active"
UserStatusInactive == "inactive"
UserStatusBanned == "banned"
UserStatuses == {UserStatusActive, UserStatusInactive, UserStatusBanned}

\* error strings returned by the service and the handlers
OK == "ok"
ErrNotFound == "invite code not found"
ErrExhausted == "invite code has reached maximum uses"
ErrNotActive == "invite code is not active"
ErrUpdate == "failed to update invite code"
ErrUsage == "failed to create usage record"
ErrCommit == "failed to commit transaction"
ErrUpdateStatus == "failed to update invite code status"
ErrDelete == "failed to delete invite code"
ErrCreate == "failed to create invite code"
ErrBadRequest == "bad request"
ErrForbidden == "forbidden"
ErrUnauthorized == "unauthorized"
ErrUserExists == "user with email already exists"
ErrPassword == "failed to process password"
ErrCreateUser == "failed to create user account"
ErrInvalidNotFound == "invalid invite code: invite code not found"
ErrInvalidExhausted == "invalid invite code: invite code has reached maximum uses"
ErrInvalidNotActive == "invalid invite code: invite code is not active"

Procs == 1..MaxProcs
CodeStrings == 1..MaxCodes          \* the values hex.EncodeToString can return
UserIDs == 1..2                     \* rows of the users table
MaxUsesInputs == (0..MaxUsesInput) \cup {MaxUsesLimit + 1}
StatusInputs == {InviteCodeStatusActive, InviteCodeStatusDisabled, InviteCodeStatusUsed}
Emails == 1..MaxEmails              \* RegisterRequest.Email
NoInviteCode == 0                   \* RegisterRequest.InviteCode == "", and a nil pointer

VARIABLES
    inviteCodes,   \* table invite_codes: sequence of rows, row i has ID i
    usages,        \* table invite_code_usages, in insertion order
    users,         \* table users
    rowLock,       \* rowLock[id]: the request whose open transaction wrote row id, 0 if none
    pc,            \* pc[p]: the statement request p executes next
    local,         \* local[p]: the local variables of request p
    result,        \* the call that returned last: operation, code or id it was given, error,
                   \* and the id of the user it returned (Register)
    successes,     \* successes[id]: UseInviteCode calls on row id that returned no error
    calls,         \* requests started so far (create excluded)
    taskQueues,    \* taskQueues[name]: the Redis list, head (LPUSH side) first
    processor,     \* the ProcessTasks goroutine: its position and the task it holds
    executions,    \* executions[id]: calls of a handler on task id
    completed,     \* the tasks whose handler returned nil
    tasksCreated   \* tasks enqueued by CreateTask so far

queueVars == <<taskQueues, processor, executions, completed, tasksCreated>>

vars == <<inviteCodes, usages, users, rowLock, pc, local, result, successes, calls,
          taskQueues, processor, executions, completed, tasksCreated>>

\* ------------------------------------------------------------ model.InviteCode
NoCode ==
    [ID |-> 0, Code |-> 0, CreatedByID |-> 0, Status |-> "", MaxUses |-> 0,
     UsedCount |-> 0, Deleted |-> FALSE]

NoLocal == [inviteCode |-> NoCode, userID |-> 0, caller |-> "", email |-> 0,
            depth |-> 0, usedAt |-> 0]

IsDeleted(ic) == ic.Deleted

\* IsExhausted with > in place of >=
IsExhaustedStrict(ic) == ic.UsedCount > ic.MaxUses

IsExhausted(ic) == ic.UsedCount >= ic.MaxUses

\* IsActive without the max-uses check
IsActiveStatusOnly(ic) == ic.Status = InviteCodeStatusActive

\* IsActive without the status check
IsActiveIgnoreStatus(ic) == ~(ic.UsedCount >= ic.MaxUses)

IsActive(ic) ==
    IF ic.Status # InviteCodeStatusActive THEN FALSE
    ELSE IF ic.UsedCount >= ic.MaxUses THEN FALSE
    ELSE TRUE

CanBeUsed(ic) == IsActive(ic) /\ ~IsDeleted(ic)

\* ------------------------------------------------------------ model.User
UserIsActive(u) == u.Status = UserStatusActive /\ ~u.Deleted

IsAdmin(u) == u.Role = UserRoleAdmin /\ UserIsActive(u)

\* ------------------------------------------------------------ store reads
\* Where("code = ?", code).First(..): soft-deleted rows are not seen
GetInviteCodeByCode(code) ==
    IF \E i \in 1..Len(inviteCodes) : inviteCodes[i].Code = code /\ ~inviteCodes[i].Deleted
    THEN inviteCodes[CHOOSE i \in 1..Len(inviteCodes) :
                        inviteCodes[i].Code = code /\ ~inviteCodes[i].Deleted]
    ELSE NoCode

\* First(&inviteCode, id): soft-deleted rows are not seen
GetInviteCodeByID(id) ==
    IF id \in 1..Len(inviteCodes) /\ ~inviteCodes[id].Deleted
    THEN inviteCodes[id]
    ELSE NoCode

\* the two checks of ValidateInviteCode in the other order
ValidateErrorStatusFirst(ic) ==
    IF ic = NoCode THEN ErrNotFound
    ELSE IF ~CanBeUsed(ic)
         THEN IF ic.Status # InviteCodeStatusActive THEN ErrNotActive ELSE ErrExhausted
         ELSE OK

\* the error ValidateInviteCode returns for the row GetInviteCodeByCode found
ValidateError(ic) ==
    IF ic = NoCode THEN ErrNotFound
    ELSE IF ~CanBeUsed(ic)
         THEN IF IsExhausted(ic) THEN ErrExhausted ELSE ErrNotActive
         ELSE OK

\* the status update with > in place of >=
RedeemedStrict(ic) ==
    LET n == ic.UsedCount + 1
    IN [ic EXCEPT !.UsedCount = n,
                  !.Status = IF n > ic.MaxUses THEN InviteCodeStatusUsed ELSE ic.Status]

\* the status update without its condition
RedeemedAlwaysUsed(ic) ==
    [ic EXCEPT !.UsedCount = ic.UsedCount + 1, !.Status = InviteCodeStatusUsed]

\* UseInviteCode lines 237-243: the struct after the increment and status update
Redeemed(ic) ==
    LET n == ic.UsedCount + 1
    IN [ic EXCEPT !.UsedCount = n,
                  !.Status = IF n >= ic.MaxUses THEN InviteCodeStatusUsed ELSE ic.Status]

UsagesOf(id) == {k \in 1..Len(usages) : usages[k].InviteCodeID = id}

\* ------------------------------------------------------------ InviteCodeUsageService
\* the handler's paging: limit outside 1..100 becomes 10, page below 1 becomes 1
PageLimit(limit) == IF limit < 1 \/ limit > 100 THEN 10 ELSE limit
PageOffset(page, limit) == ((IF page < 1 THEN 1 ELSE page) - 1) * PageLimit(limit)

\* an ordering by used_at ascending
OrderedByUsedAtAsc(f) ==
    \A a, b \in DOMAIN f : a < b => usages[f[a]].UsedAt <= usages[f[b]].UsedAt

\* Order("used_at DESC") over the row numbers f[1], f[2], ..
OrderedByUsedAt(f) ==
    \A a, b \in DOMAIN f : a < b => usages[f[a]].UsedAt >= usages[f[b]].UsedAt

\* the orders in which the store may return the usage rows of a code: rows
\* with equal used_at come in any order
UsageOrders(id) ==
    LET n == Cardinality(UsagesOf(id))
    IN {f \in [1..n -> UsagesOf(id)] :
           /\ \A a, b \in 1..n : a # b => f[a] # f[b]
           /\ OrderedByUsedAt(f)}

\* GetUsagesByInviteCode(ctx, inviteCodeID, limit, offset): the results the
\* call can return, Count(&total) and the page of the ordered rows
GetUsagesByInviteCode(id, limit, offset) ==
    LET n == Cardinality(UsagesOf(id))
        last == IF offset + limit < n THEN offset + limit ELSE n
    IN {[usages |-> [k \in 1..(IF last > offset THEN last - offset ELSE 0) |->
                        usages[f[offset + k]]],
         total |-> n] : f \in UsageOrders(id)}

\* ------------------------------------------------------------ queue.Task
QueueName == "default"
DeadQueueName == "default_dead"
QueueNames == {QueueName, DeadQueueName}

\* the task types with a handler registered in main.go, and another one
Handlers == {"email", "notification", "data_processing"}
TaskTypes == Handlers \cup {"report"}

\* a payload either carries the fields the handler of the type reads or not
Payloads == {"complete", "incomplete"}

NoTask == [ID |-> 0, Type |-> "", Payload |-> "", Retry |-> 0, MaxRetry |-> 0]

TaskIDs == 1..MaxTasks

InitQueue ==
    /\ taskQueues = [q \in QueueNames |-> << >>]
    /\ processor = [pc |-> "dequeue", task |-> NoTask]
    /\ executions = [t \in TaskIDs |-> 0]
    /\ completed = {}
    /\ tasksCreated = 0

\* ------------------------------------------------------------ initial state
Init ==
    /\ inviteCodes = <<>>
    /\ usages = <<>>
    /\ users = <<[Email |-> 0, Role |-> UserRoleAdmin, Status |-> UserStatusActive,
                  Deleted |-> FALSE, InviteCodeID |-> 0, InviteCodeUsed |-> NoInviteCode],
                 [Email |-> 1, Role |-> UserRoleUser, Status |-> UserStatusActive,
                  Deleted |-> FALSE, InviteCodeID |-> 0, InviteCodeUsed |-> NoInviteCode]>>
    /\ rowLock = [i \in 1..MaxCodes |-> 0]
    /\ pc = [p \in Procs |-> "idle"]
    /\ local = [p \in Procs |-> NoLocal]
    /\ result = [op |-> "", arg |-> 0, err |-> "", user |-> 0]
    /\ successes = [i \in 1..MaxCodes |-> 0]
    /\ calls = 0
    /\ InitQueue

\* Register hands the error of UseInviteCode to its caller
RegisterAfterUseSurfacing(p, err) ==
    /\ pc' = [pc EXCEPT ![p] = "idle"]
    /\ local' = [local EXCEPT ![p] = NoLocal]
    /\ result' = [op |-> "register", arg |-> local[p].inviteCode.Code, err |-> err,
                   user |-> local[p].userID]

\* AuthService.Register lines 123-155: whatever UseInviteCode returned, the
\* error is only logged; the token is signed (HS256 over a []byte secret, which
\* does not fail) and the created user is returned
RegisterAfterUse(p, err) ==
    /\ pc' = [pc EXCEPT ![p] = "idle"]
    /\ local' = [local EXCEPT ![p] = NoLocal]
    /\ result' = [op |-> "register", arg |-> local[p].inviteCode.Code, err |-> OK,
                   user |-> local[p].userID]

\* the return of a call: to the client or, for the UseInviteCode that
\* Register calls, to Register
Return(p, op, arg, err) ==
    IF local[p].caller = "register"
    THEN RegisterAfterUse(p, err)
    ELSE /\ pc' = [pc EXCEPT ![p] = "idle"]
         /\ local' = [local EXCEPT ![p] = NoLocal]
         /\ result' = [op |-> op, arg |-> arg, err |-> err, user |-> 0]

\* a new request is served by the free worker with the lowest index
FreeWorker(p) ==
    /\ pc[p] = "idle"
    /\ \A q \in Procs : q < p => pc[q] # "idle"

StartCall(p) ==
    /\ FreeWorker(p)
    /\ calls < MaxCalls
    /\ calls' = calls + 1

\* ------------------------------------------------------------ CreateInviteCode
\* handler.CreateInviteCode + service.CreateInviteCode.  GenerateInviteCode
\* returns a candidate that no visible (not soft-deleted) row carries; the
\* insert then meets the unique index on code, which covers every row.
CreateInviteCode(p, caller, maxUses) ==
    /\ FreeWorker(p)
    /\ Len(inviteCodes) < MaxCodes
    /\ IF maxUses < MinUses \/ maxUses > MaxUsesLimit
       THEN /\ Return(p, "create", 0, ErrBadRequest)
            /\ UNCHANGED inviteCodes
       ELSE \E code \in CodeStrings :
              /\ GetInviteCodeByCode(code) = NoCode
              /\ IF \E i \in 1..Len(inviteCodes) : inviteCodes[i].Code = code
                 THEN /\ Return(p, "create", code, ErrCreate)
                      /\ UNCHANGED inviteCodes
                 ELSE /\ inviteCodes' = Append(inviteCodes,
                            [ID |-> Len(inviteCodes) + 1, Code |-> code,
                             CreatedByID |-> caller,
                             Status |-> InviteCodeStatusActive,
                             MaxUses |-> maxUses, UsedCount |-> 0,
                             Deleted |-> FALSE])
                      /\ Return(p, "create", code, OK)
    /\ UNCHANGED <<usages, users, rowLock, successes, calls>>
    /\ UNCHANGED queueVars

\* a validation that consumes a use of the code it accepts
ValidateInviteCodeConsumes(p, code) ==
    /\ StartCall(p)
    /\ LET ic == GetInviteCodeByCode(code)
       IN /\ Return(p, "validate", code, ValidateError(ic))
          /\ inviteCodes' = IF ValidateError(ic) = OK
                            THEN [inviteCodes EXCEPT ![ic.ID] = Redeemed(ic)]
                            ELSE inviteCodes
    /\ UNCHANGED <<usages, users, rowLock, successes>>
    /\ UNCHANGED queueVars

\* ------------------------------------------------------------ ValidateInviteCode
ValidateInviteCode(p, code) ==
    /\ StartCall(p)
    /\ Return(p, "validate", code, ValidateError(GetInviteCodeByCode(code)))
    /\ UNCHANGED <<inviteCodes, usages, users, rowLock, successes>>
    /\ UNCHANGED queueVars

\* ------------------------------------------------------------ UseInviteCode
\* tx := Begin(); ValidateInviteCode reads through s.db, not through tx:
\* a plain read that takes no lock.  On success the struct is updated in
\* memory (lines 237-243).
UseBegin(p, code, userID) ==
    LET ic == GetInviteCodeByCode(code)
        err == ValidateError(ic)
    IN IF err # OK
       THEN Return(p, "use", code, err)
       ELSE /\ pc' = [pc EXCEPT ![p] = "use_save"]
            /\ local' = [local EXCEPT ![p] =
                  [local[p] EXCEPT !.inviteCode = Redeemed(ic), !.userID = userID]]
            /\ UNCHANGED result

UseValidate(p, code, userID) ==
    /\ StartCall(p)
    /\ UseBegin(p, code, userID)
    /\ UNCHANGED <<inviteCodes, usages, users, rowLock, successes>>
    /\ UNCHANGED queueVars

\* the save issued on s.db instead of tx: committed at once, no lock kept
UseSaveNoTx(p) ==
    /\ pc[p] = "use_save"
    /\ rowLock[local[p].inviteCode.ID] = 0
    /\ inviteCodes' = [inviteCodes EXCEPT ![local[p].inviteCode.ID] = local[p].inviteCode]
    /\ pc' = [pc EXCEPT ![p] = "use_create"]
    /\ UNCHANGED <<usages, users, rowLock, local, result, successes, calls>>
    /\ UNCHANGED queueVars

\* tx.Save(inviteCode): UPDATE of every column of the struct WHERE id = ? AND
\* deleted_at IS NULL and, when that matched no row, an upsert of the struct;
\* in both cases the row with this primary key then holds the struct, and it
\* stays locked until the transaction ends.
UseSave(p) ==
    /\ pc[p] = "use_save"
    /\ rowLock[local[p].inviteCode.ID] = 0
    /\ rowLock' = [rowLock EXCEPT ![local[p].inviteCode.ID] = p]
    /\ pc' = [pc EXCEPT ![p] = "use_create"]
    /\ UNCHANGED <<inviteCodes, usages, users, local, result, successes, calls>>
    /\ UNCHANGED queueVars

\* tx.Save fails: tx.Rollback, error returned
UseSaveFail(p) ==
    /\ pc[p] = "use_save"
    /\ Return(p, "use", local[p].inviteCode.Code, ErrUpdate)
    /\ UNCHANGED <<inviteCodes, usages, users, rowLock, successes, calls>>
    /\ UNCHANGED queueVars

\* time.Now(): the clock never goes back, and it has advanced whenever a
\* request has started since it was last read
Now == calls

\* usage := &model.InviteCodeUsage{.., UsedAt: time.Now(), ..} and
\* tx.Create(usage) succeeds (still uncommitted)
UseCreateUsage(p) ==
    /\ pc[p] = "use_create"
    /\ pc' = [pc EXCEPT ![p] = "use_commit"]
    /\ local' = [local EXCEPT ![p].usedAt = Now]
    /\ UNCHANGED <<inviteCodes, usages, users, rowLock, result, successes, calls>>
    /\ UNCHANGED queueVars

\* tx.Create(usage) fails: tx.Rollback drops the saved row and its lock
UseCreateUsageFail(p) ==
    /\ pc[p] = "use_create"
    /\ rowLock' = [rowLock EXCEPT ![local[p].inviteCode.ID] = 0]
    /\ Return(p, "use", local[p].inviteCode.Code, ErrUsage)
    /\ UNCHANGED <<inviteCodes, usages, users, successes, calls>>
    /\ UNCHANGED queueVars

\* tx.Commit succeeds: the saved row and the usage record become visible
UseCommit(p) ==
    /\ pc[p] = "use_commit"
    /\ LET ic == local[p].inviteCode
       IN /\ inviteCodes' = [inviteCodes EXCEPT ![ic.ID] = ic]
          /\ usages' = Append(usages, [InviteCodeID |-> ic.ID,
                                       UsedByID |-> local[p].userID,
                                       UsedAt |-> local[p].usedAt])
          /\ rowLock' = [rowLock EXCEPT ![ic.ID] = 0]
          /\ successes' = [successes EXCEPT ![ic.ID] = @ + 1]
    /\ Return(p, "use", local[p].inviteCode.Code, OK)
    /\ UNCHANGED <<users, calls>>
    /\ UNCHANGED queueVars

\* the usage record created on s.db instead of tx: it survives a failed commit
UseCommitFailKeepsUsage(p) ==
    /\ pc[p] = "use_commit"
    /\ usages' = Append(usages, [InviteCodeID |-> local[p].inviteCode.ID,
                                 UsedByID |-> local[p].userID,
                                             UsedAt |-> local[p].usedAt])
    /\ rowLock' = [rowLock EXCEPT ![local[p].inviteCode.ID] = 0]
    /\ Return(p, "use", local[p].inviteCode.Code, ErrCommit)
    /\ UNCHANGED <<inviteCodes, users, successes, calls>>
    /\ UNCHANGED queueVars

\* tx.Commit fails: nothing of the transaction is applied
UseCommitFail(p) ==
    /\ pc[p] = "use_commit"
    /\ rowLock' = [rowLock EXCEPT ![local[p].inviteCode.ID] = 0]
    /\ Return(p, "use", local[p].inviteCode.Code, ErrCommit)
    /\ UNCHANGED <<inviteCodes, usages, users, successes, calls>>
    /\ UNCHANGED queueVars

\* ------------------------------------------------------------ UpdateInviteCodeStatus
\* a binding that only requires the status to be present
StatusAllowedAny(status) == status \in StatusInputs

\* a binding that also admits used
StatusAllowedUsed(status) ==
    status \in {InviteCodeStatusActive, InviteCodeStatusDisabled, InviteCodeStatusUsed}

\* the binding of the request body: oneof=active disabled
StatusAllowed(status) == status \in {InviteCodeStatusActive, InviteCodeStatusDisabled}

\* a handler without the ownership check
MayManageAnyone(caller, ic) == TRUE

\* the handler's check: the caller is the creator or an admin
MayManage(caller, ic) == ~(ic.CreatedByID # caller /\ ~IsAdmin(users[caller]))

\* handler.UpdateInviteCodeStatus up to the call of the service, and the
\* service's First(&inviteCode, id) followed by inviteCode.Status = status
UpdateStatusRead(p, caller, id, status) ==
    /\ StartCall(p)
    /\ LET ic == GetInviteCodeByID(id)
       IN IF ~StatusAllowed(status)
          THEN Return(p, "update", id, ErrBadRequest)
          ELSE IF ic = NoCode
          THEN Return(p, "update", id, ErrNotFound)
          ELSE IF ~MayManage(caller, ic)
          THEN Return(p, "update", id, ErrForbidden)
          ELSE /\ pc' = [pc EXCEPT ![p] = "update_save"]
               /\ local' = [local EXCEPT ![p] =
                     [NoLocal EXCEPT !.inviteCode = [ic EXCEPT !.Status = status],
                                     !.userID = caller]]
               /\ UNCHANGED result
    /\ UNCHANGED <<inviteCodes, usages, users, rowLock, successes>>
    /\ UNCHANGED queueVars

\* s.db.Save(&inviteCode): every column of the struct is written, and the
\* statement waits for a transaction that holds the row
UpdateStatusSave(p) ==
    /\ pc[p] = "update_save"
    /\ LET ic == local[p].inviteCode
       IN /\ rowLock[ic.ID] = 0
          /\ inviteCodes' = [inviteCodes EXCEPT ![ic.ID] = ic]
    /\ Return(p, "update", local[p].inviteCode.ID, OK)
    /\ UNCHANGED <<usages, users, rowLock, successes, calls>>
    /\ UNCHANGED queueVars

UpdateStatusSaveFail(p) ==
    /\ pc[p] = "update_save"
    /\ Return(p, "update", local[p].inviteCode.ID, ErrUpdateStatus)
    /\ UNCHANGED <<inviteCodes, usages, users, rowLock, successes, calls>>
    /\ UNCHANGED queueVars

\* ------------------------------------------------------------ DeleteInviteCode
\* handler.DeleteInviteCode up to the call of the service
DeleteCheck(p, caller, id) ==
    /\ StartCall(p)
    /\ LET ic == GetInviteCodeByID(id)
       IN IF ic = NoCode
          THEN Return(p, "delete", id, ErrNotFound)
          ELSE IF ~MayManage(caller, ic)
          THEN Return(p, "delete", id, ErrForbidden)
          ELSE /\ pc' = [pc EXCEPT ![p] = "delete_exec"]
               /\ local' = [local EXCEPT ![p] =
                     [NoLocal EXCEPT !.inviteCode = ic, !.userID = caller]]
               /\ UNCHANGED result
    /\ UNCHANGED <<inviteCodes, usages, users, rowLock, successes>>
    /\ UNCHANGED queueVars

\* s.db.Delete(&model.InviteCode{}, id): sets deleted_at on the row if it is
\* not soft-deleted yet; RowsAffected == 0 is reported as not found
DeleteExec(p) ==
    /\ pc[p] = "delete_exec"
    /\ LET id == local[p].inviteCode.ID
       IN /\ rowLock[id] = 0
          /\ IF inviteCodes[id].Deleted
             THEN /\ Return(p, "delete", local[p].inviteCode.ID, ErrNotFound)
                  /\ UNCHANGED inviteCodes
             ELSE /\ inviteCodes' = [inviteCodes EXCEPT ![id].Deleted = TRUE]
                  /\ Return(p, "delete", local[p].inviteCode.ID, OK)
    /\ UNCHANGED <<usages, users, rowLock, successes, calls>>
    /\ UNCHANGED queueVars

DeleteExecFail(p) ==
    /\ pc[p] = "delete_exec"
    /\ Return(p, "delete", local[p].inviteCode.ID, ErrDelete)
    /\ UNCHANGED <<inviteCodes, usages, users, rowLock, successes, calls>>
    /\ UNCHANGED queueVars

\* ------------------------------------------------------------ Register
\* fmt.Errorf("invalid invite code: %s", err.Error())
InvalidInviteCode(err) ==
    CASE err = ErrNotFound -> ErrInvalidNotFound
      [] err = ErrExhausted -> ErrInvalidExhausted
      [] err = ErrNotActive -> ErrInvalidNotActive

\* Where("email = ?", email).First(&user): soft-deleted rows are not seen
GetUserByEmail(email) ==
    {u \in 1..Len(users) : users[u].Email = email /\ ~users[u].Deleted}

\* Register returns to the client
RegisterReturn(p, code, user, err) ==
    /\ pc' = [pc EXCEPT ![p] = "idle"]
    /\ local' = [local EXCEPT ![p] = NoLocal]
    /\ result' = [op |-> "register", arg |-> code, err |-> err, user |-> user]

\* a registration that validates the code even when none is given
RegisterValidateAlways(p, email, code) ==
    /\ StartCall(p)
    /\ LET ic == GetInviteCodeByCode(code)
           err == ValidateError(ic)
       IN IF err # OK
          THEN RegisterReturn(p, code, 0, InvalidInviteCode(err))
          ELSE /\ pc' = [pc EXCEPT ![p] = "reg_email"]
               /\ local' = [local EXCEPT ![p] =
                     [inviteCode |-> ic, userID |-> 0, caller |-> "register",
                      email |-> email, depth |-> 0, usedAt |-> 0]]
               /\ UNCHANGED result
    /\ UNCHANGED <<inviteCodes, usages, users, rowLock, successes>>
    /\ UNCHANGED queueVars

\* a registration that goes on whatever the validation answered
RegisterValidateLate(p, email, code) ==
    /\ StartCall(p)
    /\ LET ic == IF code # NoInviteCode THEN GetInviteCodeByCode(code) ELSE NoCode
       IN /\ pc' = [pc EXCEPT ![p] = "reg_email"]
          /\ local' = [local EXCEPT ![p] =
                [inviteCode |-> ic, userID |-> 0, caller |-> "register",
                 email |-> email, depth |-> 0, usedAt |-> 0]]
          /\ UNCHANGED result
    /\ UNCHANGED <<inviteCodes, usages, users, rowLock, successes>>
    /\ UNCHANGED queueVars

\* a registration that redeems the code as soon as it has validated it
RegisterValidateRedeems(p, email, code) ==
    /\ StartCall(p)
    /\ LET ic == IF code # NoInviteCode THEN GetInviteCodeByCode(code) ELSE NoCode
           err == IF code # NoInviteCode THEN ValidateError(ic) ELSE OK
       IN IF err # OK
          THEN /\ RegisterReturn(p, code, 0, InvalidInviteCode(err))
               /\ UNCHANGED inviteCodes
          ELSE /\ pc' = [pc EXCEPT ![p] = "reg_email"]
               /\ local' = [local EXCEPT ![p] =
                     [inviteCode |-> ic, userID |-> 0, caller |-> "register",
                      email |-> email, depth |-> 0, usedAt |-> 0]]
               /\ inviteCodes' = IF ic = NoCode THEN inviteCodes
                                 ELSE [inviteCodes EXCEPT ![ic.ID] = Redeemed(ic)]
               /\ UNCHANGED result
    /\ UNCHANGED <<usages, users, rowLock, successes>>
    /\ UNCHANGED queueVars

\* lines 52-65: a non-empty code is validated (a plain read), an empty one is not
RegisterValidate(p, email, code) ==
    /\ StartCall(p)
    /\ LET ic == IF code # NoInviteCode THEN GetInviteCodeByCode(code) ELSE NoCode
           err == IF code # NoInviteCode THEN ValidateError(ic) ELSE OK
       IN IF err # OK
          THEN RegisterReturn(p, code, 0, InvalidInviteCode(err))
          ELSE /\ pc' = [pc EXCEPT ![p] = "reg_email"]
               /\ local' = [local EXCEPT ![p] =
                     [inviteCode |-> ic, userID |-> 0, caller |-> "register",
                      email |-> email, depth |-> 0, usedAt |-> 0]]
               /\ UNCHANGED result
    /\ UNCHANGED <<inviteCodes, usages, users, rowLock, successes>>
    /\ UNCHANGED queueVars

\* lines 67-71: the e-mail must not belong to a visible user
RegisterCheckEmail(p) ==
    /\ pc[p] = "reg_email"
    /\ IF GetUserByEmail(local[p].email) # {}
       THEN RegisterReturn(p, local[p].inviteCode.Code, 0, ErrUserExists)
       ELSE /\ pc' = [pc EXCEPT ![p] = "reg_create"]
            /\ UNCHANGED <<local, result>>
    /\ UNCHANGED <<inviteCodes, usages, users, rowLock, successes, calls>>
    /\ UNCHANGED queueVars

\* lines 73-78: bcrypt rejects the password (longer than 72 bytes)
RegisterPasswordFail(p) ==
    /\ pc[p] = "reg_email"
    /\ GetUserByEmail(local[p].email) = {}
    /\ RegisterReturn(p, local[p].inviteCode.Code, 0, ErrPassword)
    /\ UNCHANGED <<inviteCodes, usages, users, rowLock, successes, calls>>
    /\ UNCHANGED queueVars

\* a registration that returns right after the insert and never redeems
RegisterCreateUserSkipsUse(p) ==
    /\ pc[p] = "reg_create"
    /\ LET ic == local[p].inviteCode
           id == Len(users) + 1
       IN IF \E u \in 1..Len(users) : users[u].Email = local[p].email
          THEN /\ RegisterReturn(p, ic.Code, 0, ErrCreateUser)
               /\ UNCHANGED users
          ELSE /\ users' = Append(users,
                     [Email |-> local[p].email, Role |-> UserRoleUser,
                      Status |-> UserStatusActive, Deleted |-> FALSE,
                      InviteCodeID |-> ic.ID, InviteCodeUsed |-> ic.Code])
               /\ RegisterReturn(p, ic.Code, id, OK)
    /\ UNCHANGED <<inviteCodes, usages, rowLock, successes, calls>>
    /\ UNCHANGED queueVars

\* lines 93-115: the user row is inserted with the invite code it presented;
\* the unique index on email covers soft-deleted rows too.  Without a code
\* Register goes on to sign the token and returns (lines 136-155).
RegisterCreateUser(p) ==
    /\ pc[p] = "reg_create"
    /\ LET ic == local[p].inviteCode
           id == Len(users) + 1
       IN IF \E u \in 1..Len(users) : users[u].Email = local[p].email
          THEN /\ RegisterReturn(p, ic.Code, 0, ErrCreateUser)
               /\ UNCHANGED users
          ELSE /\ users' = Append(users,
                     [Email |-> local[p].email, Role |-> UserRoleUser,
                      Status |-> UserStatusActive, Deleted |-> FALSE,
                      InviteCodeID |-> ic.ID, InviteCodeUsed |-> ic.Code])
               /\ IF ic = NoCode
                  THEN RegisterReturn(p, NoInviteCode, id, OK)
                  ELSE /\ pc' = [pc EXCEPT ![p] = "reg_use"]
                       /\ local' = [local EXCEPT ![p].userID = id]
                       /\ UNCHANGED result
    /\ UNCHANGED <<inviteCodes, usages, rowLock, successes, calls>>
    /\ UNCHANGED queueVars

\* CreateUser fails in the store
RegisterCreateUserFail(p) ==
    /\ pc[p] = "reg_create"
    /\ RegisterReturn(p, local[p].inviteCode.Code, 0, ErrCreateUser)
    /\ UNCHANGED <<inviteCodes, usages, users, rowLock, successes, calls>>
    /\ UNCHANGED queueVars

\* lines 117-123: UseInviteCode(ctx, inviteCode.Code, user.ID, ...)
RegisterUse(p) ==
    /\ pc[p] = "reg_use"
    /\ UseBegin(p, local[p].inviteCode.Code, local[p].userID)
    /\ UNCHANGED <<inviteCodes, usages, users, rowLock, successes, calls>>
    /\ UNCHANGED queueVars

Next ==
    \/ \E p \in Procs, u \in UserIDs, m \in MaxUsesInputs : CreateInviteCode(p, u, m)
    \/ \E p \in Procs, c \in CodeStrings : ValidateInviteCode(p, c)
    \/ \E p \in Procs, c \in CodeStrings, u \in UserIDs : UseValidate(p, c, u)
    \/ \E p \in Procs : UseSave(p)
    \/ \E p \in Procs : UseSaveFail(p)
    \/ \E p \in Procs : UseCreateUsage(p)
    \/ \E p \in Procs : UseCreateUsageFail(p)
    \/ \E p \in Procs : UseCommit(p)
    \/ \E p \in Procs : UseCommitFail(p)
    \/ \E p \in Procs, u \in UserIDs, i \in 1..MaxCodes, s \in StatusInputs :
          UpdateStatusRead(p, u, i, s)
    \/ \E p \in Procs : UpdateStatusSave(p)
    \/ \E p \in Procs : UpdateStatusSaveFail(p)
    \/ \E p \in Procs, u \in UserIDs, i \in 1..MaxCodes : DeleteCheck(p, u, i)
    \/ \E p \in Procs : DeleteExec(p)
    \/ \E p \in Procs : DeleteExecFail(p)

Spec == Init /\ [][Next]_vars

\* registration together with every invite-code request
RegisterSteps ==
    \/ \E p \in Procs, e \in Emails, c \in CodeStrings \cup {NoInviteCode} :
          RegisterValidate(p, e, c)
    \/ \E p \in Procs : RegisterCheckEmail(p)
    \/ \E p \in Procs : RegisterPasswordFail(p)
    \/ \E p \in Procs : RegisterCreateUser(p)
    \/ \E p \in Procs : RegisterCreateUserFail(p)
    \/ \E p \in Procs : RegisterUse(p)

\* the requests that write invite codes, next to registration (in the
\* program Register is the caller of UseInviteCode)
NextRegister ==
    \/ RegisterSteps
    \/ \E p \in Procs, u \in UserIDs, m \in MaxUsesInputs : CreateInviteCode(p, u, m)
    \/ \E p \in Procs : UseSave(p)
    \/ \E p \in Procs : UseSaveFail(p)
    \/ \E p \in Procs : UseCreateUsage(p)
    \/ \E p \in Procs : UseCreateUsageFail(p)
    \/ \E p \in Procs : UseCommit(p)
    \/ \E p \in Procs : UseCommitFail(p)
    \/ \E p \in Procs, u \in UserIDs, i \in 1..MaxCodes, s \in StatusInputs :
          UpdateStatusRead(p, u, i, s)
    \/ \E p \in Procs : UpdateStatusSave(p)
    \/ \E p \in Procs, u \in UserIDs, i \in 1..MaxCodes : DeleteCheck(p, u, i)
    \/ \E p \in Procs : DeleteExec(p)

SpecRegister == Init /\ [][NextRegister]_vars

\* registrations that run concurrently on a store that does not fail, with
\* one e-mail address more than SpecRegister offers, so that two of the
\* requests can carry addresses no user has
RegisterEmails == Emails \cup {MaxEmails + 1}

NextRegisterConcurrent ==
    \/ \E p \in Procs, u \in UserIDs, m \in MaxUsesInputs : CreateInviteCode(p, u, m)
    \/ \E p \in Procs, e \in RegisterEmails, c \in CodeStrings \cup {NoInviteCode} :
          RegisterValidate(p, e, c)
    \/ \E p \in Procs : RegisterCheckEmail(p)
    \/ \E p \in Procs : RegisterCreateUser(p)
    \/ \E p \in Procs : RegisterUse(p)
    \/ \E p \in Procs : UseSave(p)
    \/ \E p \in Procs : UseCreateUsage(p)
    \/ \E p \in Procs : UseCommit(p)

SpecRegisterConcurrent == Init /\ [][NextRegisterConcurrent]_vars

\* one request at a time and a store that does not fail: creation,
\* redemption and registration
AllIdle == \A p \in Procs : pc[p] = "idle"

NextSeq ==
    \/ AllIdle /\ \E p \in Procs, u \in UserIDs, m \in MaxUsesInputs \cup {MaxUsesInput + 1} :
          CreateInviteCode(p, u, m)
    \/ AllIdle /\ \E p \in Procs, c \in CodeStrings, u \in UserIDs : UseValidate(p, c, u)
    \/ AllIdle /\ \E p \in Procs, e \in Emails, c \in CodeStrings \cup {NoInviteCode} :
          RegisterValidate(p, e, c)
    \/ \E p \in Procs : UseSave(p)
    \/ \E p \in Procs : UseCreateUsage(p)
    \/ \E p \in Procs : UseCommit(p)
    \/ \E p \in Procs : RegisterCheckEmail(p)
    \/ \E p \in Procs : RegisterCreateUser(p)
    \/ \E p \in Procs : RegisterUse(p)

SpecSeq == Init /\ [][NextSeq]_vars

\* ------------------------------------------------------------ creation, step by step
\* the candidates rand.Read + hex.EncodeToString can produce, and the
\* description lengths around the binding's limit
GenCodes == 1..MaxGenCodes
DescLens == {0, MaxDescription, MaxDescription + 1}

\* a binding without the upper limit of max_uses
CreateRequestValidNoMax(maxUses, descLen) ==
    maxUses >= MinUses /\ descLen <= MaxDescription

\* CreateInviteCodeRequest: binding:"min=1,max=100" and binding:"max=255"
CreateRequestValid(maxUses, descLen) ==
    /\ maxUses >= MinUses
    /\ maxUses <= MaxUsesLimit
    /\ descLen <= MaxDescription

\* handler.CreateInviteCode: ShouldBindJSON, then the service is called with
\* user.ID and the request
CreateStart(p, caller, maxUses, descLen) ==
    /\ StartCall(p)
    /\ IF ~CreateRequestValid(maxUses, descLen)
       THEN Return(p, "create", 0, ErrBadRequest)
       ELSE /\ pc' = [pc EXCEPT ![p] = "create_gen"]
            /\ local' = [local EXCEPT ![p] =
                  [NoLocal EXCEPT !.inviteCode =
                                     [NoCode EXCEPT !.CreatedByID = caller,
                                                    !.MaxUses = maxUses],
                                  !.userID = caller]]
            /\ UNCHANGED result
    /\ UNCHANGED <<inviteCodes, usages, users, rowLock, successes>>
    /\ UNCHANGED queueVars

\* GenerateInviteCode: a candidate that Where("code = ?").First finds (a
\* visible row) is dropped and the function calls itself; the candidate it
\* returns is one its lookup did not find
CreateGenerate(p, code) ==
    /\ pc[p] = "create_gen"
    /\ GetInviteCodeByCode(code) = NoCode
    /\ pc' = [pc EXCEPT ![p] = "create_insert"]
    /\ local' = [local EXCEPT ![p].inviteCode.Code = code]
    /\ UNCHANGED <<inviteCodes, usages, users, rowLock, result, successes, calls>>
    /\ UNCHANGED queueVars

\* the candidate is found in the store: return s.GenerateInviteCode(), one
\* call deeper, with no limit on the depth in the code; depth MaxDepth stands
\* for every depth from MaxDepth on
CreateRetry(p, code) ==
    /\ pc[p] = "create_gen"
    /\ GetInviteCodeByCode(code) # NoCode
    /\ local' = [local EXCEPT ![p].depth = IF @ < MaxDepth THEN @ + 1 ELSE @,
                              ![p].inviteCode.Code = code]
    /\ UNCHANGED <<inviteCodes, usages, users, rowLock, pc, result, successes, calls>>
    /\ UNCHANGED queueVars

\* rand.Read fails
CreateGenerateFail(p) ==
    /\ pc[p] = "create_gen"
    /\ Return(p, "create", 0, ErrCreate)
    /\ UNCHANGED <<inviteCodes, usages, users, rowLock, successes, calls>>
    /\ UNCHANGED queueVars

\* an insert into a table without the unique index on code
CreateInsertNoIndex(p) ==
    /\ pc[p] = "create_insert"
    /\ Len(inviteCodes) < MaxGenRows
    /\ inviteCodes' = Append(inviteCodes,
          [ID |-> Len(inviteCodes) + 1, Code |-> local[p].inviteCode.Code,
           CreatedByID |-> local[p].userID,
           Status |-> InviteCodeStatusActive,
           MaxUses |-> local[p].inviteCode.MaxUses, UsedCount |-> 0,
           Deleted |-> FALSE])
    /\ Return(p, "create", local[p].inviteCode.Code, OK)
    /\ UNCHANGED <<usages, users, rowLock, successes, calls>>
    /\ UNCHANGED queueVars

\* s.db.Create(inviteCode): the unique index on code covers every row, the
\* soft-deleted ones too; on a duplicate the insert fails
CreateInsert(p) ==
    /\ pc[p] = "create_insert"
    /\ LET code == local[p].inviteCode.Code
       IN IF \E i \in 1..Len(inviteCodes) : inviteCodes[i].Code = code
          THEN /\ Return(p, "create", code, ErrCreate)
               /\ UNCHANGED inviteCodes
          ELSE /\ Len(inviteCodes) < MaxGenRows
               /\ inviteCodes' = Append(inviteCodes,
                     [ID |-> Len(inviteCodes) + 1, Code |-> code,
                      CreatedByID |-> local[p].userID,
                      Status |-> InviteCodeStatusActive,
                      MaxUses |-> local[p].inviteCode.MaxUses, UsedCount |-> 0,
                      Deleted |-> FALSE])
               /\ Return(p, "create", code, OK)
    /\ UNCHANGED <<usages, users, rowLock, successes, calls>>
    /\ UNCHANGED queueVars

\* the insert fails in the store for another reason
CreateInsertFail(p) ==
    /\ pc[p] = "create_insert"
    /\ Return(p, "create", local[p].inviteCode.Code, ErrCreate)
    /\ UNCHANGED <<inviteCodes, usages, users, rowLock, successes, calls>>
    /\ UNCHANGED queueVars

\* the store of the creation requests holds up to MaxGenRows rows
InitCreate ==
    /\ inviteCodes = <<>>
    /\ usages = <<>>
    /\ users = <<[Email |-> 0, Role |-> UserRoleAdmin, Status |-> UserStatusActive,
                  Deleted |-> FALSE, InviteCodeID |-> 0, InviteCodeUsed |-> NoInviteCode],
                 [Email |-> 1, Role |-> UserRoleUser, Status |-> UserStatusActive,
                  Deleted |-> FALSE, InviteCodeID |-> 0, InviteCodeUsed |-> NoInviteCode]>>
    /\ rowLock = [i \in 1..MaxGenRows |-> 0]
    /\ pc = [p \in Procs |-> "idle"]
    /\ local = [p \in Procs |-> NoLocal]
    /\ result = [op |-> "", arg |-> 0, err |-> "", user |-> 0]
    /\ successes = [i \in 1..MaxGenRows |-> 0]
    /\ calls = 0
    /\ InitQueue

\* concurrent creations and deletions
NextCreate ==
    \/ \E p \in Procs, u \in UserIDs, m \in MaxUsesInputs, d \in DescLens :
          CreateStart(p, u, m, d)
    \/ \E p \in Procs, c \in GenCodes : CreateGenerate(p, c)
    \/ \E p \in Procs, c \in GenCodes : CreateRetry(p, c)
    \/ \E p \in Procs : CreateGenerateFail(p)
    \/ \E p \in Procs : CreateInsert(p)
    \/ \E p \in Procs : CreateInsertFail(p)
    \/ \E p \in Procs, u \in UserIDs, i \in 1..MaxGenRows : DeleteCheck(p, u, i)
    \/ \E p \in Procs : DeleteExec(p)

SpecCreate == InitCreate /\ [][NextCreate]_vars

\* a request goroutine that can run keeps running: the steps of a creation
\* that do not depend on a failure of the store or of rand.Read
CreateStep(p) ==
    \/ \E c \in GenCodes : CreateGenerate(p, c)
    \/ \E c \in GenCodes : CreateRetry(p, c)
    \/ CreateInsert(p)

SpecCreateLive ==
    InitCreate /\ [][NextCreate]_vars /\ \A p \in Procs : WF_vars(CreateStep(p))

\* ------------------------------------------------------------ task queue
storeVars == <<inviteCodes, usages, users, rowLock, pc, local, result, successes, calls>>

\* TaskQueue.Enqueue: LPUSH puts the task at the head of the list
Enqueue(queueName, task) ==
    taskQueues' = [taskQueues EXCEPT ![queueName] = <<task>> \o @]

\* TaskHandler.CreateTask: a task of the requested type and payload, Retry 0,
\* MaxRetry 3, is put on the queue "default"
CreateTask(type, payload) ==
    /\ tasksCreated < MaxTasks
    /\ tasksCreated' = tasksCreated + 1
    /\ Enqueue(QueueName, [ID |-> tasksCreated + 1, Type |-> type,
                           Payload |-> payload, Retry |-> 0,
                           MaxRetry |-> DefaultMaxRetry])
    /\ UNCHANGED <<processor, executions, completed>>
    /\ UNCHANGED storeVars

\* ProcessTasks, default branch: Dequeue (BRPOP) takes the task at the tail;
\* on an empty list or a Redis error the loop goes round without a change
Dequeue ==
    /\ processor.pc = "dequeue"
    /\ taskQueues[QueueName] # << >>
    /\ LET q == taskQueues[QueueName]
       IN /\ processor' = [pc |-> "process", task |-> q[Len(q)]]
          /\ taskQueues' = [taskQueues EXCEPT ![QueueName] = SubSeq(q, 1, Len(q) - 1)]
    /\ UNCHANGED <<executions, completed, tasksCreated>>
    /\ UNCHANGED storeVars

\* ProcessTasks: case <-ctx.Done() at the top of the loop
ProcessorStop ==
    /\ processor.pc = "dequeue"
    /\ processor' = [processor EXCEPT !.pc = "stopped"]
    /\ UNCHANGED <<taskQueues, executions, completed, tasksCreated>>
    /\ UNCHANGED storeVars

\* the handlers of handlers.go return an error exactly when a field they
\* read is missing from the payload
HandlerFails(task) == task.Payload = "incomplete"

\* the retry test with <= in place of <
ShouldRetryInclusive(task) == task.Retry <= task.MaxRetry

\* processTask: task.Retry < task.MaxRetry, evaluated after task.Retry++
ShouldRetry(task) == task.Retry < task.MaxRetry

\* processTask: no handler is registered for the type; the error is returned
\* to ProcessTasks, which logs it and goes on to the next task
ProcessNoHandler ==
    /\ processor.pc = "process"
    /\ processor.task.Type \notin Handlers
    /\ processor' = [pc |-> "dequeue", task |-> NoTask]
    /\ UNCHANGED <<taskQueues, executions, completed, tasksCreated>>
    /\ UNCHANGED storeVars

\* processTask: the handler returns nil
ProcessSucceeds ==
    /\ processor.pc = "process"
    /\ processor.task.Type \in Handlers
    /\ ~HandlerFails(processor.task)
    /\ executions' = [executions EXCEPT ![processor.task.ID] = @ + 1]
    /\ completed' = completed \cup {processor.task.ID}
    /\ processor' = [pc |-> "dequeue", task |-> NoTask]
    /\ UNCHANGED <<taskQueues, tasksCreated>>
    /\ UNCHANGED storeVars

\* processTask: the handler returns an error; task.Retry++, then the task
\* goes back on the queue or on the dead-letter queue
ProcessFails ==
    /\ processor.pc = "process"
    /\ processor.task.Type \in Handlers
    /\ HandlerFails(processor.task)
    /\ executions' = [executions EXCEPT ![processor.task.ID] = @ + 1]
    /\ LET task == [processor.task EXCEPT !.Retry = @ + 1]
       IN IF ShouldRetry(task)
          THEN Enqueue(QueueName, task)
          ELSE Enqueue(DeadQueueName, task)
    /\ processor' = [pc |-> "dequeue", task |-> NoTask]
    /\ UNCHANGED <<completed, tasksCreated>>
    /\ UNCHANGED storeVars

\* processTask: the handler returns an error and the Enqueue that follows
\* fails in Redis; its error is returned to ProcessTasks, which logs it
ProcessFailsEnqueueFails ==
    /\ processor.pc = "process"
    /\ processor.task.Type \in Handlers
    /\ HandlerFails(processor.task)
    /\ executions' = [executions EXCEPT ![processor.task.ID] = @ + 1]
    /\ processor' = [pc |-> "dequeue", task |-> NoTask]
    /\ UNCHANGED <<taskQueues, completed, tasksCreated>>
    /\ UNCHANGED storeVars

\* the task queue while Redis answers every command and the server runs
NextQueueReliable ==
    \/ \E t \in TaskTypes, d \in Payloads : CreateTask(t, d)
    \/ Dequeue
    \/ ProcessNoHandler
    \/ ProcessSucceeds
    \/ ProcessFails

ProcessorStep ==
    Dequeue \/ ProcessNoHandler \/ ProcessSucceeds \/ ProcessFails

SpecQueueLive == Init /\ [][NextQueueReliable]_vars /\ WF_vars(ProcessorStep)

\* the task queue with the failures of Redis and the shutdown
NextQueue ==
    \/ \E t \in TaskTypes, d \in Payloads : CreateTask(t, d)
    \/ Dequeue
    \/ ProcessNoHandler
    \/ ProcessSucceeds
    \/ ProcessFails
    \/ ProcessFailsEnqueueFails
    \/ ProcessorStop

SpecQueue == Init /\ [][NextQueue]_vars

\* ------------------------------------------------------------ AuthMiddleware
\* An Authorization header: scheme "" is the missing header, any scheme other
\* than "Bearer" is a header that SplitN does not split into "Bearer <token>".
\* A token carries the user id of its claims; Valid says that
\* jwt.ParseWithClaims accepts it (HMAC method, signature, exp and nbf).
TokenUserIDs == 1..3
Tokens == [UserID : TokenUserIDs, Valid : BOOLEAN]
AuthHeaders == [scheme : {"", "Bearer", "Basic"}, token : Tokens]

\* JWTService.ValidateToken: the claims of an accepted token, 0 otherwise
JWTValidateToken(token) == IF token.Valid THEN token.UserID ELSE 0

\* First(&user, id) without the status filter
GetActiveUserByIDAnyStatus(id) ==
    IF id \in 1..Len(users) /\ ~users[id].Deleted THEN id ELSE 0

\* UserService.GetActiveUserByID: Where("status = ?", active).First(&user, id);
\* First does not see soft-deleted rows.  0 stands for ErrRecordNotFound.
GetActiveUserByID(id) ==
    IF id \in 1..Len(users) /\ ~users[id].Deleted
       /\ users[id].Status = UserStatusActive
    THEN id ELSE 0

\* AuthService.ValidateToken: the user of the token, 0 for an error
ValidateToken(token) ==
    IF JWTValidateToken(token) = 0 THEN 0
    ELSE GetActiveUserByID(JWTValidateToken(token))

\* the user the middleware puts in the context, 0 when it aborts with 401
AuthUser(header) ==
    IF header.scheme # "Bearer" THEN 0 ELSE ValidateToken(header.token)

\* AuthMiddleware: c.Set(AuthContextKey, user); c.Next() runs the handler,
\* every other path answers 401 and aborts the chain
AuthMiddleware(header) ==
    /\ result' = [op |-> "auth",
                  arg |-> IF header.scheme = "Bearer" THEN header.token.UserID ELSE 0,
                  err |-> IF AuthUser(header) = 0 THEN ErrUnauthorized ELSE OK,
                  user |-> AuthUser(header)]
    /\ UNCHANGED <<inviteCodes, usages, users, rowLock, pc, local, successes, calls>>
    /\ UNCHANGED queueVars

\* the query of GetActiveUserByID fails: ValidateToken returns an error
AuthMiddlewareStoreFails(header) ==
    /\ header.scheme = "Bearer"
    /\ JWTValidateToken(header.token) # 0
    /\ result' = [op |-> "auth", arg |-> header.token.UserID,
                  err |-> ErrUnauthorized, user |-> 0]
    /\ UNCHANGED <<inviteCodes, usages, users, rowLock, pc, local, successes, calls>>
    /\ UNCHANGED queueVars

\* UserService.UpdateUserStatus: First(&user, id) (not found for a missing or
\* soft-deleted row), then Save of the row with the new status
UpdateUserStatus(id, status) ==
    /\ id \in 1..Len(users)
    /\ ~users[id].Deleted
    /\ users' = [users EXCEPT ![id].Status = status]
    /\ result' = [op |-> "user_status", arg |-> id, err |-> OK, user |-> id]
    /\ UNCHANGED <<inviteCodes, usages, rowLock, pc, local, successes, calls>>
    /\ UNCHANGED queueVars

\* UserService.SoftDeleteUser: Delete(&model.User{}, id) sets deleted_at
SoftDeleteUser(id) ==
    /\ id \in 1..Len(users)
    /\ ~users[id].Deleted
    /\ users' = [users EXCEPT ![id].Deleted = TRUE]
    /\ result' = [op |-> "user_delete", arg |-> id, err |-> OK, user |-> id]
    /\ UNCHANGED <<inviteCodes, usages, rowLock, pc, local, successes, calls>>
    /\ UNCHANGED queueVars

\* UserService.RestoreUser: Unscoped().Update("deleted_at", nil)
RestoreUser(id) ==
    /\ id \in 1..Len(users)
    /\ users[id].Deleted
    /\ users' = [users EXCEPT ![id].Deleted = FALSE]
    /\ result' = [op |-> "user_restore", arg |-> id, err |-> OK, user |-> id]
    /\ UNCHANGED <<inviteCodes, usages, rowLock, pc, local, successes, calls>>
    /\ UNCHANGED queueVars

NextAuth ==
    \/ \E header \in AuthHeaders : AuthMiddlewareStoreFails(header)
    \/ \E header \in AuthHeaders : AuthMiddleware(header)
    \/ \E id \in UserIDs, status \in UserStatuses : UpdateUserStatus(id, status)
    \/ \E id \in UserIDs : SoftDeleteUser(id)
    \/ \E id \in UserIDs : RestoreUser(id)

SpecAuth == Init /\ [][NextAuth]_vars

TypeOK ==
    /\ Len(inviteCodes) <= MaxCodes
    /\ calls \in 0..MaxCalls

\* ================================================================ properties
IDs == 1..Len(inviteCodes)

UsePCs == {"use_save", "use_create", "use_commit"}

\* this step is the return of a UseInviteCode call
UseReturns ==
    \/ \E p \in Procs : pc[p] \in UsePCs /\ pc'[p] = "idle"
    \/ calls' = calls + 1 /\ pc' = pc /\ result'.op = "use"

\* this step is the first statement of a UseInviteCode call given code c
UseStartsOn(c) ==
    /\ calls' = calls + 1
    /\ \/ pc' = pc /\ result'.op = "use" /\ result'.arg = c
       \/ \E p \in Procs : /\ pc[p] = "idle"
                             /\ pc'[p] = "use_save"
                             /\ local'[p].inviteCode.Code = c

\* C1: of the UseInviteCode calls on a code (however they interleave) never
\* more than maxUses return success.
NoOversell ==
    \A i \in IDs : successes[i] <= inviteCodes[i].MaxUses

\* C2: every invite code record has 0 <= usedCount <= maxUses, in every
\* reachable state.
UsedCountInRange ==
    \A i \in IDs : 0 <= inviteCodes[i].UsedCount
                   /\ inviteCodes[i].UsedCount <= inviteCodes[i].MaxUses

\* a code at its cap after a status update was applied to it
UsedCountInRangeWitness ==
    \E i \in IDs : /\ inviteCodes[i].UsedCount = inviteCodes[i].MaxUses
                   /\ inviteCodes[i].Status = InviteCodeStatusActive
                   /\ successes[i] >= 1

\* C3: the number of usage records of a code equals its usedCount, in every
\* reachable state.
LedgerComplete ==
    \A i \in IDs : Cardinality(UsagesOf(i)) = inviteCodes[i].UsedCount

\* C4: a UseInviteCode call that fails at the save, at the usage insert or at
\* the commit returns an error and leaves invite_codes and invite_code_usages
\* as they were; the row and the usage record are written in one step only,
\* by the call that returns success.
UseAtomic ==
    [][\A p \in Procs :
         (pc[p] \in UsePCs /\ pc'[p] # pc[p]) =>
            IF pc'[p] = "idle" /\ result'.err = OK
            THEN /\ inviteCodes' =
                       [inviteCodes EXCEPT ![local[p].inviteCode.ID] = local[p].inviteCode]
                 /\ usages' = Append(usages, [InviteCodeID |-> local[p].inviteCode.ID,
                                              UsedByID |-> local[p].userID,
                                             UsedAt |-> local[p].usedAt])
            ELSE /\ inviteCodes' = inviteCodes
                 /\ usages' = usages
                 /\ pc'[p] = "idle" => result'.err \in {ErrUpdate, ErrUsage, ErrCommit}]_vars

\* a call failed at the commit and the code is untouched
UseAtomicWitness ==
    /\ result.op = "use"
    /\ result.err = ErrCommit
    /\ \E i \in IDs : /\ inviteCodes[i].Code = result.arg
                      /\ inviteCodes[i].UsedCount = 0
                      /\ inviteCodes[i].Status = InviteCodeStatusActive
                      /\ UsagesOf(i) = {}

\* C5: right after a UseInviteCode call returned success, the code it redeemed
\* has status used if and only if its usedCount equals its maxUses.
UsedIffFullAfterUse ==
    [][\A p \in Procs :
         (pc[p] = "use_commit" /\ pc'[p] = "idle" /\ result'.err = OK) =>
            LET ic == inviteCodes'[local[p].inviteCode.ID]
            IN (ic.Status = InviteCodeStatusUsed) <=> (ic.UsedCount = ic.MaxUses)]_vars

\* the last use of a code with more than one use has just returned
UsedIffFullAfterUseWitness ==
    /\ result.op = "use"
    /\ result.err = OK
    /\ \E i \in IDs : /\ inviteCodes[i].Code = result.arg
                      /\ inviteCodes[i].MaxUses > 1
                      /\ inviteCodes[i].UsedCount = inviteCodes[i].MaxUses
                      /\ inviteCodes[i].Status = InviteCodeStatusUsed

\* C6: a code whose status is used has usedCount = maxUses, in every reachable
\* state.
UsedImpliesFull ==
    \A i \in IDs : inviteCodes[i].Status = InviteCodeStatusUsed
                   => inviteCodes[i].UsedCount = inviteCodes[i].MaxUses

\* a used code that was soft-deleted afterwards
UsedImpliesFullWitness ==
    \E i \in IDs : /\ inviteCodes[i].Status = InviteCodeStatusUsed
                   /\ inviteCodes[i].Deleted
                   /\ result.op = "delete"
                   /\ result.err = OK

\* C7: a UseInviteCode call that returns success has appended exactly one
\* usage record, with the id of the code and the id of the user; no other
\* step changes the ledger; so the usage records of a code are as many as
\* the successful calls on it.
UsagePerSuccess ==
    /\ [](\A i \in 1..MaxCodes : Cardinality(UsagesOf(i)) = successes[i])
    /\ [][IF UseReturns /\ result'.err = OK
          THEN \E p \in Procs :
                 /\ pc[p] = "use_commit"
                 /\ pc'[p] = "idle"
                 /\ usages' = Append(usages, [InviteCodeID |-> local[p].inviteCode.ID,
                                              UsedByID |-> local[p].userID,
                                             UsedAt |-> local[p].usedAt])
          ELSE usages' = usages]_vars

\* two calls on the same code have returned success
UsagePerSuccessWitness ==
    \E i \in IDs : /\ successes[i] = 2
                   /\ Cardinality(UsagesOf(i)) = 2
                   /\ result.op = "use"
                   /\ result.err # OK

\* C8: a UseInviteCode call given a code that is disabled, or whose usedCount
\* has reached maxUses, returns an error at once and changes neither table.
RejectsUnusable ==
    [][\A c \in CodeStrings :
         LET ic == GetInviteCodeByCode(c)
         IN (/\ UseStartsOn(c)
             /\ ic # NoCode
             /\ (ic.Status = InviteCodeStatusDisabled \/ ic.UsedCount >= ic.MaxUses))
            => /\ pc' = pc
               /\ result'.err \in {ErrNotActive, ErrExhausted}
               /\ inviteCodes' = inviteCodes
               /\ usages' = usages]_vars

\* scenario C: a disabled unused code was refused
RejectsUnusableWitness ==
    /\ result.op = "use"
    /\ result.err = ErrNotActive
    /\ \E i \in IDs : /\ inviteCodes[i].Code = result.arg
                      /\ inviteCodes[i].Status = InviteCodeStatusDisabled
                      /\ inviteCodes[i].UsedCount = 0
                      /\ ~inviteCodes[i].Deleted
                      /\ UsagesOf(i) = {}

\* C9: once a code is soft-deleted, ValidateInviteCode and UseInviteCode on
\* its code string return 'invite code not found', and its usedCount and its
\* usage records never change again.
DeletedIsFinal ==
    [][\A i \in IDs :
         inviteCodes[i].Deleted =>
            /\ inviteCodes'[i].UsedCount = inviteCodes[i].UsedCount
            /\ Cardinality(UsagesOf(i)') = Cardinality(UsagesOf(i))
            /\ (calls' = calls + 1 /\ pc' = pc /\ result'.op \in {"use", "validate"}
                /\ result'.arg = inviteCodes[i].Code) => result'.err = ErrNotFound]_vars

\* C10 as stated: used is entered only by a UseInviteCode that brings
\* usedCount to maxUses, and a code that is used stays used.
UsedOneWay ==
    [][\A i \in IDs :
         /\ (inviteCodes[i].Status # InviteCodeStatusUsed
             /\ inviteCodes'[i].Status = InviteCodeStatusUsed)
            => /\ \E p \in Procs : pc[p] = "use_commit" /\ pc'[p] = "idle"
                                   /\ local[p].inviteCode.ID = i
               /\ inviteCodes'[i].UsedCount = inviteCodes'[i].MaxUses
         /\ inviteCodes[i].Status = InviteCodeStatusUsed
            => inviteCodes'[i].Status = InviteCodeStatusUsed]_vars

\* C10 amended: used is entered only by the commit of a UseInviteCode that
\* writes usedCount = maxUses (leaving it again is possible).
UsedEnteredOnlyByUse ==
    [][\A i \in IDs :
         (inviteCodes[i].Status # InviteCodeStatusUsed
          /\ inviteCodes'[i].Status = InviteCodeStatusUsed)
         => /\ \E p \in Procs : pc[p] = "use_commit" /\ pc'[p] = "idle"
                                /\ local[p].inviteCode.ID = i
            /\ inviteCodes'[i].UsedCount = inviteCodes'[i].MaxUses]_vars

\* a code that was redeemed to its cap, hence used, and is disabled now
UsedEnteredOnlyByUseWitness ==
    \E i \in IDs : /\ inviteCodes[i].Status = InviteCodeStatusDisabled
                   /\ inviteCodes[i].UsedCount = inviteCodes[i].MaxUses
                   /\ successes[i] = inviteCodes[i].MaxUses
                   /\ result.op = "update"
                   /\ result.err = OK

\* C11: when the requests run one after the other (and the store does not
\* fail), a redemption of a code below its cap is accepted and commits
\* usedCount + 1, so usedCount counts the successful calls 1..N; the code is
\* used exactly from the N-th on, and a later call returns the exhausted error
\* and changes nothing.
SequentialRedemption ==
    /\ [](\A i \in IDs :
            /\ inviteCodes[i].UsedCount = successes[i]
            /\ successes[i] <= inviteCodes[i].MaxUses
            /\ inviteCodes[i].Status =
                  IF inviteCodes[i].UsedCount = inviteCodes[i].MaxUses
                  THEN InviteCodeStatusUsed ELSE InviteCodeStatusActive)
    /\ [][\A c \in CodeStrings :
            LET ic == GetInviteCodeByCode(c)
            IN (UseStartsOn(c) /\ ic # NoCode) =>
                  IF ic.UsedCount < ic.MaxUses
                  THEN \E p \in Procs : /\ pc'[p] = "use_save"
                                        /\ local'[p].inviteCode.UsedCount = ic.UsedCount + 1
                  ELSE /\ pc' = pc
                       /\ result'.err = ErrExhausted
                       /\ inviteCodes' = inviteCodes
                       /\ usages' = usages]_vars
    /\ [][\A p \in Procs :
            (pc[p] = "use_commit" /\ pc'[p] # "use_commit") =>
               /\ inviteCodes'[local[p].inviteCode.ID] = local[p].inviteCode
               /\ successes'[local[p].inviteCode.ID] = successes[local[p].inviteCode.ID] + 1]_vars

\* a code of two uses was redeemed twice and the third call was refused
SequentialRedemptionWitness ==
    /\ result.op = "use"
    /\ result.err = ErrExhausted
    /\ \E i \in IDs : /\ inviteCodes[i].MaxUses = 2
                      /\ inviteCodes[i].UsedCount = 2
                      /\ successes[i] = 2
                      /\ inviteCodes[i].Status = InviteCodeStatusUsed

\* this step is a ValidateInviteCode request (it returns in the step it starts)
ValidateStep ==
    calls' = calls + 1 /\ pc' = pc /\ result'.op = "validate"

\* C12: a ValidateInviteCode request, whatever it returns, changes no invite
\* code and adds no usage record.
ValidateReadOnly ==
    [][ValidateStep => (inviteCodes' = inviteCodes /\ usages' = usages)]_vars

\* a code was validated successfully more than once and is still unused
ValidateReadOnlyWitness ==
    /\ result.op = "validate"
    /\ result.err = OK
    /\ calls >= 2
    /\ \E i \in IDs : /\ inviteCodes[i].Code = result.arg
                      /\ inviteCodes[i].UsedCount = 0
                      /\ inviteCodes[i].Status = InviteCodeStatusActive
                      /\ UsagesOf(i) = {}
                      /\ successes[i] = 0

\* the registration of process p is inside its UseInviteCode call
InRegisterUse(p) ==
    local[p].caller = "register" /\ pc[p] \in UsePCs \cup {"reg_use"}

\* C13: when the UseInviteCode call of a registration fails (the user row
\* exists by then), Register still returns success with that user; the user
\* row is not removed or changed and still names the code in inviteCodeID and
\* inviteCodeUsed.
RegisterSurvivesUseFailure ==
    [][\A p \in Procs :
          (InRegisterUse(p) /\ pc'[p] = "idle" /\ successes' = successes) =>
             LET u == local[p].userID
             IN /\ result'.op = "register"
                /\ result'.err = OK
                /\ result'.user = u
                /\ u \in 1..Len(users)
                /\ users' = users
                /\ ~users[u].Deleted
                /\ users[u].InviteCodeID = local[p].inviteCode.ID
                /\ users[u].InviteCodeUsed = local[p].inviteCode.Code
                /\ users[u].InviteCodeUsed # NoInviteCode]_vars

\* a registration returned success for a user who names a code that has no
\* usage record of that user
RegisterSurvivesUseFailureWitness ==
    /\ result.op = "register"
    /\ result.err = OK
    /\ result.user \in 1..Len(users)
    /\ users[result.user].InviteCodeID \in IDs
    /\ \A k \in 1..Len(usages) : usages[k].UsedByID # result.user

ErrInvalid == {ErrInvalidNotFound, ErrInvalidExhausted, ErrInvalidNotActive}

\* the registration of process p was made without an invite code
RegistersWithoutCode(p) ==
    local[p].caller = "register" /\ local[p].inviteCode = NoCode

\* C15: a registration without an invite code is never refused for its code,
\* never reaches UseInviteCode, changes no invite code and no usage record,
\* and the user it creates has inviteCodeID and inviteCodeUsed unset.
RegisterWithoutCode ==
    /\ [](/\ (result.op = "register" /\ result.arg = NoInviteCode) =>
                /\ result.err \notin ErrInvalid
                /\ result.err = OK =>
                      /\ result.user \in 1..Len(users)
                      /\ users[result.user].InviteCodeID = 0
                      /\ users[result.user].InviteCodeUsed = NoInviteCode
          /\ \A p \in Procs :
                RegistersWithoutCode(p) => pc[p] \in {"reg_email", "reg_create"})
    /\ [][\A p \in Procs :
            (RegistersWithoutCode(p) /\ pc'[p] # pc[p]) =>
               /\ inviteCodes' = inviteCodes
               /\ usages' = usages
               /\ successes' = successes
               /\ pc'[p] \in {"reg_create", "idle"}
               /\ users' # users =>
                     /\ result' = [op |-> "register", arg |-> NoInviteCode,
                                   err |-> OK, user |-> Len(users')]
                     /\ users' = Append(users, users'[Len(users')])
                     /\ users'[Len(users')].InviteCodeID = 0
                     /\ users'[Len(users')].InviteCodeUsed = NoInviteCode]_vars

\* a user registered without a code while a code exists
RegisterWithoutCodeWitness ==
    /\ result = [op |-> "register", arg |-> NoInviteCode, err |-> OK,
                 user |-> Len(users)]
    /\ Len(users) > 2
    /\ users[Len(users)].InviteCodeID = 0
    /\ Len(inviteCodes) > 0
    /\ usages = << >>

\* this step starts a registration that presents code c
RegisterStartsOn(c) ==
    /\ calls' = calls + 1
    /\ \E p \in Procs :
          /\ pc[p] = "idle"
          /\ \/ pc'[p] = "reg_email" /\ local'[p].inviteCode.Code = c
             \/ pc' = pc /\ result'.op = "register" /\ result'.arg = c

\* C16: a registration that presents a code which is missing, soft-deleted,
\* disabled or exhausted when it is validated returns the 'invalid invite
\* code' error of that case at once: no user is created, and no user, invite
\* code or usage record changes.
RegisterRejectsInvalidCode ==
    /\ [][\A c \in CodeStrings :
            LET err == ValidateError(GetInviteCodeByCode(c))
            IN (RegisterStartsOn(c) /\ err # OK) =>
                  /\ pc' = pc
                  /\ result' = [op |-> "register", arg |-> c,
                                err |-> InvalidInviteCode(err), user |-> 0]
                  /\ users' = users
                  /\ inviteCodes' = inviteCodes
                  /\ usages' = usages]_vars
    /\ [](\A p \in Procs :
            (local[p].caller = "register" /\ local[p].inviteCode # NoCode
                /\ pc[p] = "reg_email") =>
               (local[p].inviteCode.Status = InviteCodeStatusActive
                /\ local[p].inviteCode.UsedCount < local[p].inviteCode.MaxUses
                /\ ~local[p].inviteCode.Deleted))

\* a registration was refused for a disabled code and created no user
RegisterRejectsInvalidCodeWitness ==
    /\ result.op = "register"
    /\ result.err = ErrInvalidNotActive
    /\ result.user = 0
    /\ Len(users) = 2
    /\ \E i \in IDs : /\ inviteCodes[i].Code = result.arg
                      /\ inviteCodes[i].Status = InviteCodeStatusDisabled

\* user u created the row i or is an active admin
OwnerOrAdmin(u, i) ==
    \/ inviteCodes[i].CreatedByID = u
    \/ /\ users[u].Role = UserRoleAdmin
       /\ users[u].Status = UserStatusActive
       /\ ~users[u].Deleted

\* this step starts a request for operation op ("update" or "delete"): it
\* returns at once or goes on to the write pcw
RequestStarts(op, pcw) ==
    /\ calls' = calls + 1
    /\ \/ pc' = pc /\ result'.op = op
       \/ \E p \in Procs : pc[p] = "idle" /\ pc'[p] = pcw

Statuses == {InviteCodeStatusActive, InviteCodeStatusUsed, InviteCodeStatusDisabled}

CreatePersistsActiveUnused ==
    /\ [][\A p \in Procs, u \in UserIDs, m \in MaxUsesInputs, d \in DescLens :
            CreateStart(p, u, m, d) =>
               IF m < 1 \/ m > 100 \/ d > 255
               THEN /\ pc' = pc
                    /\ result' = [op |-> "create", arg |-> 0,
                                  err |-> ErrBadRequest, user |-> 0]
                    /\ inviteCodes' = inviteCodes
               ELSE /\ pc'[p] = "create_gen"
                    /\ local'[p].userID = u
                    /\ local'[p].inviteCode.MaxUses = m
                    /\ inviteCodes' = inviteCodes]_vars
    /\ [][\A p \in Procs :
            (pc[p] \in {"create_gen", "create_insert"} /\ pc'[p] = "idle") =>
               IF result'.err = OK
               THEN /\ Len(inviteCodes') = Len(inviteCodes) + 1
                    /\ inviteCodes' = Append(inviteCodes, inviteCodes'[Len(inviteCodes')])
                    /\ LET ic == inviteCodes'[Len(inviteCodes')]
                       IN /\ ic.Status = InviteCodeStatusActive
                          /\ ic.UsedCount = 0
                          /\ ic.CreatedByID = local[p].userID
                          /\ ic.MaxUses = local[p].inviteCode.MaxUses
                          /\ ic.MaxUses \in 1..100
                          /\ ~ic.Deleted
                          /\ ic.Code = result'.arg
               ELSE inviteCodes' = inviteCodes]_vars
    /\ [][Len(inviteCodes') > Len(inviteCodes) =>
            \E p \in Procs : pc[p] = "create_insert" /\ pc'[p] = "idle"]_vars

\* the regular user created a code, and a later request was refused
CreatePersistsActiveUnusedWitness ==
    /\ result = [op |-> "create", arg |-> 0, err |-> ErrBadRequest, user |-> 0]
    /\ \E i \in IDs : /\ inviteCodes[i].CreatedByID = 2
                      /\ inviteCodes[i].Status = InviteCodeStatusActive
                      /\ inviteCodes[i].UsedCount = 0
                      /\ inviteCodes[i].MaxUses = 1

\* C20: no two rows, soft-deleted rows included, carry the same code: a row
\* is stored only with a code that no row carries, and an insert of a code
\* that some row carries fails and stores nothing, also when creations run
\* concurrently.
CodesPairwiseDistinct ==
    /\ [](\A i, j \in IDs : i # j => inviteCodes[i].Code # inviteCodes[j].Code)
    /\ [][Len(inviteCodes') > Len(inviteCodes) =>
            \A i \in IDs : inviteCodes[i].Code # inviteCodes'[Len(inviteCodes')].Code]_vars
    /\ [][\A p \in Procs :
            (/\ pc[p] = "create_insert"
             /\ pc'[p] = "idle"
             /\ \E i \in IDs : inviteCodes[i].Code = local[p].inviteCode.Code) =>
               /\ inviteCodes' = inviteCodes
               /\ result'.err = ErrCreate]_vars

\* a creation drew the code of a soft-deleted row and its insert was refused
CodesPairwiseDistinctWitness ==
    /\ result.op = "create"
    /\ result.err = ErrCreate
    /\ \E i \in IDs : /\ inviteCodes[i].Code = result.arg
                      /\ inviteCodes[i].Deleted

\* C21: every call of GenerateInviteCode returns: a creation that is
\* generating its code eventually leaves the generation, with a code or with
\* an error.
GenerateTerminates ==
    \A p \in Procs : (pc[p] = "create_gen") ~> (pc[p] # "create_gen")

\* C22: a validation or a redemption of an existing code whose usedCount has
\* reached maxUses returns the exhausted error whatever the status (used or
\* disabled included); the not-active error is returned exactly when
\* usedCount < maxUses and the status is not active.
ExhaustedBeforeNotActive ==
    [][\A c \in CodeStrings :
          LET ic == GetInviteCodeByCode(c)
          IN ((\/ ValidateStep /\ result'.arg = c
               \/ UseStartsOn(c)) /\ ic # NoCode) =>
                /\ ic.UsedCount >= ic.MaxUses =>
                      (pc' = pc /\ result'.err = ErrExhausted)
                /\ (ic.UsedCount < ic.MaxUses /\ ic.Status # InviteCodeStatusActive) =>
                      (pc' = pc /\ result'.err = ErrNotActive)
                /\ (pc' = pc /\ result'.err = ErrNotActive) =>
                      (ic.UsedCount < ic.MaxUses /\ ic.Status # InviteCodeStatusActive)]_vars

\* a code that is full and disabled was reported as exhausted
ExhaustedBeforeNotActiveWitness ==
    /\ result.op \in {"validate", "use"}
    /\ result.err = ErrExhausted
    /\ \E i \in IDs : /\ inviteCodes[i].Code = result.arg
                      /\ ~inviteCodes[i].Deleted
                      /\ inviteCodes[i].Status = InviteCodeStatusDisabled
                      /\ inviteCodes[i].UsedCount = inviteCodes[i].MaxUses

\* the limit and page parameters a usage listing is asked with
Limits == {0, 1, 10}
Pages == {1, 2}

\* C23: when the requests run one after the other, a code with k < maxUses
\* successful redemptions is active with usedCount = k, and every listing of
\* its usages reports total = k and returns its page of the k entries with
\* usedAt descending, the most recent redemption first.
UsagesListedNewestFirst ==
    \A i \in IDs :
       (AllIdle /\ successes[i] < inviteCodes[i].MaxUses) =>
          /\ inviteCodes[i].Status = InviteCodeStatusActive
          /\ inviteCodes[i].UsedCount = successes[i]
          /\ \A l \in Limits, g \in Pages :
                \A r \in GetUsagesByInviteCode(i, PageLimit(l), PageOffset(g, l)) :
                   LET lim == IF l < 1 \/ l > 100 THEN 10 ELSE l
                       off == (g - 1) * lim
                       rest == IF successes[i] > off THEN successes[i] - off ELSE 0
                   IN /\ r.total = successes[i]
                      /\ Len(r.usages) = IF rest < lim THEN rest ELSE lim
                      /\ \A a \in 1..Len(r.usages) :
                            /\ r.usages[a].InviteCodeID = i
                            \* entry a of the page is the (off + a)-th newest
                            /\ Cardinality({k \in UsagesOf(i) :
                                  usages[k].UsedAt > r.usages[a].UsedAt}) = off + a - 1

\* a code of three uses was redeemed twice
UsagesListedNewestFirstWitness ==
    /\ AllIdle
    /\ \E i \in IDs : /\ inviteCodes[i].MaxUses = 3
                      /\ successes[i] = 2
                      /\ inviteCodes[i].Status = InviteCodeStatusActive
                      /\ \E r \in GetUsagesByInviteCode(i, 10, 0) :
                            /\ r.total = 2
                            /\ Len(r.usages) = 2
                            /\ r.usages[1].UsedAt > r.usages[2].UsedAt

\* the positions of task id on a queue
PositionsOn(queueName, id) ==
    {k \in 1..Len(taskQueues[queueName]) : taskQueues[queueName][k].ID = id}

OnQueue(queueName, id) == PositionsOn(queueName, id) # {}

NoTaskLost ==
    \A id \in 1..tasksCreated :
       \/ /\ Cardinality(PositionsOn(QueueName, id)) = 1
          /\ ~OnQueue(DeadQueueName, id) /\ processor.task.ID # id /\ id \notin completed
       \/ /\ Cardinality(PositionsOn(DeadQueueName, id)) = 1
          /\ ~OnQueue(QueueName, id) /\ processor.task.ID # id /\ id \notin completed
       \/ /\ processor.task.ID = id
          /\ ~OnQueue(QueueName, id) /\ ~OnQueue(DeadQueueName, id) /\ id \notin completed
       \/ /\ id \in completed
          /\ ~OnQueue(QueueName, id) /\ ~OnQueue(DeadQueueName, id) /\ processor.task.ID # id

\* C25: a request behind AuthMiddleware reaches its handler only with a valid
\* Bearer token whose user, at that moment, exists, is not soft-deleted and
\* has status active; the valid token of a user that is no longer there, is
\* soft-deleted, inactive or banned is answered 401 and the handler is not run.
HandlerOnlyForActiveUser ==
    [][\A header \in AuthHeaders :
          (result'.op = "auth" /\ AuthMiddleware(header)) =>
             LET id == header.token.UserID
                 current == /\ id \in 1..Len(users)
                            /\ ~users[id].Deleted
                            /\ users[id].Status = UserStatusActive
             IN /\ result'.err \in {OK, ErrUnauthorized}
                /\ result'.err = OK =>
                      /\ header.scheme = "Bearer"
                      /\ header.token.Valid
                      /\ current
                      /\ result'.user = id
                /\ (header.scheme = "Bearer" /\ header.token.Valid /\ ~current) =>
                      /\ result'.err = ErrUnauthorized
                      /\ result'.user = 0]_vars

\* the valid token of user 2 was refused while the user was banned, or
\* soft-deleted with status active
HandlerOnlyForActiveUserWitness ==
    /\ result.op = "auth"
    /\ result.arg = 2
    /\ result.err = ErrUnauthorized
    /\ users[2].Status = UserStatusBanned \/ users[2].Deleted

\* C26: the usedCount of a code never decreases, however UseInviteCode and
\* UpdateInviteCodeStatus interleave: a status update never writes back a
\* usedCount older than the stored one.
UsedCountNeverDecreases ==
    [][\A i \in IDs : inviteCodes'[i].UsedCount >= inviteCodes[i].UsedCount]_vars

\* this step is the Save of an UpdateInviteCodeStatus call on code i
UpdateSaves(i) ==
    \E p \in Procs : /\ pc[p] = "update_save"
                     /\ pc'[p] = "idle"
                     /\ local[p].inviteCode.ID = i

\* C27: once UpdateInviteCodeStatus(id, disabled) has returned success the
\* status of the code stays disabled until the next status update; a
\* UseInviteCode that validated before the disable and writes after it neither
\* changes the status nor consumes a use.
DisabledUntilNextUpdate ==
    [][\A i \in IDs :
          (inviteCodes[i].Status = InviteCodeStatusDisabled /\ ~UpdateSaves(i)) =>
             /\ inviteCodes'[i].Status = InviteCodeStatusDisabled
             /\ inviteCodes'[i].UsedCount = inviteCodes[i].UsedCount]_vars

\* the users whose inviteCodeID refers to code i
RegisteredWith(i) == {u \in 1..Len(users) : users[u].InviteCodeID = i}

\* C28: under concurrent Register calls that present the same code, the
\* number of users whose inviteCodeID refers to the code never exceeds its
\* maxUses.  Stated for the states in which every call has returned, where
\* no registration is half done.
RegisteredWithinMaxUses ==
    AllIdle =>
       \A i \in IDs : Cardinality(RegisteredWith(i)) <= inviteCodes[i].MaxUses

\* C30: a Register call that fails because the e-mail already exists or
\* because the user cannot be created consumes nothing: no step of the call
\* changes an invite code (usedCount, status), the usage ledger or the count
\* of redemptions, and no user is created.  It holds of every step Register
\* takes before it calls UseInviteCode; the two errors are returned from
\* these steps only.
RegisterFailureConsumesNothing ==
    [][/\ RequestStarts("register", "reg_email") =>
             UNCHANGED <<inviteCodes, usages, successes>>
       /\ \A p \in Procs :
             /\ (pc[p] \in {"reg_email", "reg_create"} /\ pc'[p] # pc[p]) =>
                   /\ UNCHANGED <<inviteCodes, usages, successes>>
                   /\ (pc'[p] = "idle" /\ result'.err # OK) =>
                         /\ result'.op = "register"
                         /\ result'.err \in {ErrUserExists, ErrPassword, ErrCreateUser}
                         /\ result'.user = 0
                         /\ users' = users
             /\ (InRegisterUse(p) /\ pc'[p] = "idle") =>
                   result'.err \notin {ErrUserExists, ErrCreateUser}]_vars

\* a registration with a taken e-mail was refused while the code it
\* presented is still active and unused
RegisterFailureConsumesNothingWitness ==
    /\ result.op = "register"
    /\ result.err = ErrUserExists
    /\ result.arg \in CodeStrings
    /\ \E i \in IDs : /\ inviteCodes[i].Code = result.arg
                      /\ inviteCodes[i].Status = InviteCodeStatusActive
                      /\ ~inviteCodes[i].Deleted
                      /\ inviteCodes[i].UsedCount = 0
                      /\ UsagesOf(i) = {}

====
